---- MODULE Spec2Model ----
(***************************************************************************)
(* Model of src/app.py: the TWSE moving-average screener.                  *)
(*                                                                         *)
(* Numbers.  A pandas cell is either a number or NaN.  A number v is the   *)
(* one-element tuple <<v>>, NaN is the empty tuple <<>>, so that no NaN    *)
(* can be mistaken for a number.  The prices that the data source is made  *)
(* to return are multiples of 60 and the volumes multiples of 5, so every  *)
(* rolling mean (windows 5, 10, 20, 60) is an exact integer and the float  *)
(* arithmetic of the program is modelled without rounding.                 *)
(*                                                                         *)
(* Frames.  A DataFrame is a function from column names to columns, a      *)
(* column a sequence of cells; all columns have the same length.  Frames   *)
(* live in a heap (object id -> frame) because the program distinguishes   *)
(* the caller's frame from the copy made by astype.                        *)
(***************************************************************************)
EXTENDS Integers, Sequences, FiniteSets

VARIABLES
    pc,           \* position of the script: idle, loop, fetched, done, call, returned
    tickers,      \* list returned by get_twse_tickers()
    conv_limit,   \* sidebar slider value, in percent
    i,            \* loop index of enumerate(tickers)
    results,      \* the list of result rows
    bound,        \* names of the handler's variables that have been assigned
    heap,         \* DataFrame objects: object id -> frame
    stock_df,     \* object id the name stock_df refers to (0: not assigned)
    is_match,     \* last value returned by calculate_ma_alignment
    gap,          \* last gap returned by calculate_ma_alignment
    progress_bar, \* value shown by the progress bar
    messages,     \* what st.error / st.info / st.success / st.dataframe displayed
    fetched,      \* history: number of yf.download calls per loop position
    evaluated,    \* history: number of calculate_ma_alignment calls per position
    matched       \* history: positions for which calculate_ma_alignment returned match = True

vars == <<pc, tickers, conv_limit, i, results, bound, heap, stock_df, is_match,
          gap, progress_bar, messages, fetched, evaluated, matched>>

---------------------------------------------------------------------------
(* Bounds of the model and constants of the program.                       *)

MaxTickers == 2
MaxRows == 61

MinRows == 60
VolFloor == 2000000
W5 == 5
W10 == 10
W20 == 20
W60 == 60
LotSize == 1000
ProgressEvery == 10

\* values of the slider (1.0 to 8.0, default 3.0) the model draws from
ConvLimits == {1, 3}

---------------------------------------------------------------------------
(* Cells.                                                                  *)

NaN == <<>>
Num(v) == <<v>>
IsNaN(x) == x = NaN
Val(x) == x[1]

\* Python / numpy comparisons: any comparison with NaN is False.
GT(x, y) == ~IsNaN(x) /\ ~IsNaN(y) /\ Val(x) > Val(y)
LT(x, y) == ~IsNaN(x) /\ ~IsNaN(y) /\ Val(x) < Val(y)
GE(x, y) == ~IsNaN(x) /\ ~IsNaN(y) /\ Val(x) >= Val(y)

---------------------------------------------------------------------------
(* The market data the source can return (yf.download, period = "80d").    *)
(* A series is described by the distance d of a row from the last row:     *)
(*   d = 0       the current row                  close = cur              *)
(*   d in 1..5   the previous row's 5-day window  close = k * s5           *)
(*   d in 6..10                                   close = k * s10          *)
(*   d in 11..20                                  close = k * S20          *)
(*   d > 20                                       close = k * old          *)
(* k in {1, 0, -1} keeps, zeroes or negates the history.  One cell of the  *)
(* frame may be missing (NaN), as yfinance leaves it for a partial row.    *)
(* The frame has the flat columns that the program's scalar reads          *)
(* (curr['MA5'] > curr['MA10'], float(curr['Close'])) presuppose.          *)

Columns == {"Open", "High", "Low", "Close", "Volume"}

S20 == 495 * 60
Olds == {450 * 60, 565 * 60}
Recents == {495 * 60, 515 * 60}
Currents == {450 * 60, 565 * 60}
Signs == {1, 0, -1}
VolBase == 2 * 1000000
LastVols == {1000000, 2 * 1000000}

CloseProfiles ==
    [old : Olds, s10 : Recents, s5 : Recents, cur : Currents, k : Signs]

\* the profiles a missing cell is combined with: a rising series
PlainProfiles ==
    [old : {450 * 60}, s10 : Recents, s5 : {515 * 60}, cur : {565 * 60}, k : {1}]

NoMissing == [col |-> "none", d |-> 0]
Missings ==
    {[col |-> "Open", d |-> 0], [col |-> "Volume", d |-> 0],
     [col |-> "Volume", d |-> 30], [col |-> "Close", d |-> 3],
     [col |-> "Close", d |-> 8], [col |-> "Close", d |-> 15],
     [col |-> "Close", d |-> 30], [col |-> "Close", d |-> MinRows]}

CloseAt(cp, d) ==
    IF d = 0 THEN cp.cur
    ELSE cp.k * (IF d <= 5 THEN cp.s5
                 ELSE IF d <= 10 THEN cp.s10
                 ELSE IF d <= 20 THEN S20
                 ELSE cp.old)

VolumeAt(lastVol, d) == IF d = 0 THEN lastVol ELSE VolBase

MkFrame(n, cp, lastVol, m) ==
    [c \in Columns |->
        [j \in 1..n |->
            IF m.col = c /\ m.d = n - j THEN NaN
            ELSE IF c = "Volume" THEN Num(VolumeAt(lastVol, n - j))
            ELSE Num(CloseAt(cp, n - j))]]

FullLens == MinRows..MaxRows

\* frames of at least 60 rows
FullFrames ==
    {MkFrame(n, cp, v, NoMissing) : n \in FullLens, cp \in CloseProfiles, v \in LastVols}
    \cup
    UNION {{MkFrame(n, cp, VolBase, m) : n \in FullLens, cp \in PlainProfiles}
            : m \in Missings}

\* an empty frame (delisted, no trades) and a frame one row short
ShortFrames ==
    {MkFrame(n, [old |-> 450 * 60, s10 |-> 495 * 60, s5 |-> 515 * 60,
                 cur |-> 565 * 60, k |-> 1], VolBase, NoMissing)
        : n \in {0, MinRows - 1}}

Frames == FullFrames \cup ShortFrames

---------------------------------------------------------------------------
(* pandas operations used by the program.                                  *)

df_len(f) == Len(f["Close"])
df_empty(f) == df_len(f) = 0

\* df.iloc[k] for a negative k: the row counted from the end, as column -> cell
iloc(f, k) == [c \in DOMAIN f |-> f[c][df_len(f) + 1 + k]]

RECURSIVE WindowHasNaN(_, _, _)
WindowHasNaN(col, lo, hi) ==
    IF lo > hi THEN FALSE
    ELSE IsNaN(col[hi]) \/ WindowHasNaN(col, lo, hi - 1)

RECURSIVE WindowSum(_, _, _)
WindowSum(col, lo, hi) ==
    IF lo > hi THEN 0 ELSE Val(col[hi]) + WindowSum(col, lo, hi - 1)

\* col.rolling(w).mean(): NaN until w observations exist and whenever the
\* window holds a NaN, else the arithmetic mean of the last w cells
rolling_mean(col, w) ==
    [j \in 1..Len(col) |->
        IF j < w \/ WindowHasNaN(col, j - w + 1, j) THEN NaN
        ELSE Num(WindowSum(col, j - w + 1, j) \div w)]

\* df[name] = col on the object ref
setitem(h, ref, name, col) ==
    [h EXCEPT ![ref] = [c \in (DOMAIN h[ref]) \cup {name} |->
                            IF c = name THEN col ELSE h[ref][c]]]

\* df.astype(float) returns a new object with the same cells (already numeric)
NewRef(h) == CHOOSE r \in 1..(Cardinality(DOMAIN h) + 1) : r \notin DOMAIN h
\* variant: the conversion is done in place and the same object is returned
astype_float_inplace(h, ref) == [ref |-> ref, heap |-> h]

astype_float(h, ref) ==
    LET r == NewRef(h)
    IN [ref |-> r, heap |-> [o \in (DOMAIN h) \cup {r} |-> IF o = r THEN h[ref] ELSE h[o]]]

\* objects no name refers to any more are freed
Release(h, keep) == [o \in (DOMAIN h) \cap keep |-> h[o]]

---------------------------------------------------------------------------
(* Python builtins and numpy float arithmetic.                             *)

\* max(list) / min(list): the first element, replaced by a later one only
\* when the comparison `later > best` (`later < best`) is True
PyMax3(a, b, c) ==
    LET m1 == IF GT(b, a) THEN b ELSE a
    IN IF GT(c, m1) THEN c ELSE m1

PyMin3(a, b, c) ==
    LET m1 == IF LT(b, a) THEN b ELSE a
    IN IF LT(c, m1) THEN c ELSE m1

Sub(x, y) == IF IsNaN(x) \/ IsNaN(y) THEN NaN ELSE Num(Val(x) - Val(y))

\* A gap is a quotient kept exact: num n/d with d # 0, or inf, -inf, nan.
NumGap(n, d) == [kind |-> "num", n |-> n, d |-> d]
InfGap == [kind |-> "inf", n |-> 0, d |-> 0]
NegInfGap == [kind |-> "-inf", n |-> 0, d |-> 0]
NanGap == [kind |-> "nan", n |-> 0, d |-> 0]

\* numpy float64 division: x / 0 is inf, -inf or nan, never an exception
Divide(x, y) ==
    IF IsNaN(x) \/ IsNaN(y) THEN NanGap
    ELSE IF Val(y) = 0 THEN
        (IF Val(x) > 0 THEN InfGap ELSE IF Val(x) < 0 THEN NegInfGap ELSE NanGap)
    ELSE NumGap(Val(x), Val(y))

\* g <= thr / 100
GapLE(g, thr) ==
    IF g.kind = "num" THEN
        (IF g.d > 0 THEN g.n * 100 <= thr * g.d ELSE g.n * 100 >= thr * g.d)
    ELSE g.kind = "-inf"

---------------------------------------------------------------------------
(* calculate_ma_alignment(df, convergence_threshold), called with the      *)
(* object `df` of heap h.  Returns the pair (match, gap) and the heap as   *)
(* the call leaves it.                                                     *)

cond_vol(curr) == GE(curr["VolMA5"], Num(VolFloor))

\* variant: the long-term filter MA20 > MA60 is left out
cond_bullish_no_ma60(curr) ==
    /\ GT(curr["MA5"], curr["MA10"])
    /\ GT(curr["MA10"], curr["MA20"])

cond_bullish(curr) ==
    /\ GT(curr["MA5"], curr["MA10"])
    /\ GT(curr["MA10"], curr["MA20"])
    /\ GT(curr["MA20"], curr["MA60"])

\* variant: the 60-day average takes the place of the 20-day average
ma_gap_with_ma60(prev) ==
    LET mx == PyMax3(prev["MA5"], prev["MA10"], prev["MA60"])
        mn == PyMin3(prev["MA5"], prev["MA10"], prev["MA60"])
    IN Divide(Sub(mx, mn), mn)

ma_gap(prev) ==
    LET mx == PyMax3(prev["MA5"], prev["MA10"], prev["MA20"])
        mn == PyMin3(prev["MA5"], prev["MA10"], prev["MA20"])
    IN Divide(Sub(mx, mn), mn)

cond_converged(g, thr) == GapLE(g, thr)

calculate_ma_alignment(h, df, thr) ==
    IF df_len(h[df]) < MinRows
    THEN [is_match |-> FALSE, gap |-> NumGap(0, 1), heap |-> h]
    ELSE
        LET a == astype_float(h, df)
            loc == a.ref
            h1 == setitem(a.heap, loc, "MA5", rolling_mean(a.heap[loc]["Close"], W5))
            h2 == setitem(h1, loc, "MA10", rolling_mean(h1[loc]["Close"], W10))
            h3 == setitem(h2, loc, "MA20", rolling_mean(h2[loc]["Close"], W20))
            h4 == setitem(h3, loc, "MA60", rolling_mean(h3[loc]["Close"], W60))
            h5 == setitem(h4, loc, "VolMA5", rolling_mean(h4[loc]["Volume"], W5))
            curr == iloc(h5[loc], -1)
            prev == iloc(h5[loc], -2)
            g == ma_gap(prev)
        IN [is_match |-> cond_vol(curr) /\ cond_bullish(curr) /\ cond_converged(g, thr),
            gap |-> g,
            heap |-> Release(h5, {df})]

---------------------------------------------------------------------------
(* The ticker universe and the result rows.                                *)

\* the list get_twse_tickers builds from k listed 4-digit codes
Universe(k) == [j \in 1..k |-> j]

\* get_twse_tickers(): the list, or [] after reporting its own failure
get_twse_tickers(outcome) ==
    IF outcome = -1
    THEN [tickers |-> <<>>, shown |-> <<"error: list fetch failed">>]
    ELSE [tickers |-> Universe(outcome), shown |-> <<>>]

TickerOutcomes == (-1)..MaxTickers

\* int(x): truncation toward zero
py_int_div(v, q) == IF v >= 0 THEN v \div q ELSE -((-v) \div q)

\* f"{gap:.2%}": the gap in hundredths of a percent, rounded to nearest
format_pct(g) ==
    IF g.kind # "num" THEN [kind |-> g.kind, bp |-> 0]
    ELSE LET n == IF g.d > 0 THEN g.n ELSE -g.n
             d == IF g.d > 0 THEN g.d ELSE -g.d
             q == (n * 10000) \div d
             r == (n * 10000) - q * d
         IN [kind |-> "num", bp |-> IF 2 * r >= d THEN q + 1 ELSE q]

\* the dict appended to results, built from the last row of stock_df; a
\* missing key (KeyError) or int(nan) (ValueError) raises
result_row(h, ref, ticker, g) ==
    LET curr == iloc(h[ref], -1)
    IN IF "VolMA5" \notin DOMAIN curr
       THEN [raised |-> TRUE, row |-> <<>>]
       ELSE IF IsNaN(curr["VolMA5"])
       THEN [raised |-> TRUE, row |-> <<>>]
       ELSE [raised |-> FALSE,
             row |-> <<[code |-> ticker,
                        price |-> curr["Close"],
                        vol5 |-> py_int_div(Val(curr["VolMA5"]), LotSize),
                        gap_pct |-> format_pct(g)]>>]

\* variant: the empty list is not told apart
not_tickers_never(t) == FALSE

\* `if not tickers:` (line 79)
not_tickers(t) == t = <<>>

\* variant: the pass is repeated for the same ticker
continue_at_same(k) == k

\* `continue`, and the end of a pass: the loop goes on with the next index
continue_at(k) == k + 1

\* variant: a row is put at the front of the list for every ticker evaluated
insert_result_front(res, ticker, m, row) ==
    <<[code |-> ticker, price |-> NaN, vol5 |-> 0, gap_pct |-> format_pct(NanGap)]>> \o res

\* `if is_match: results.append({...})`; an exception raised while the dict
\* is built leaves results as it was (except Exception: continue)
append_result(res, ticker, m, row) ==
    IF m /\ ~row.raised THEN res \o row.row ELSE res

NoBar == [shown |-> FALSE, n |-> 0, d |-> 1]
Bar(n, d) == [shown |-> TRUE, n |-> n, d |-> d]

\* the outcome's per-ticker failure notes: the handler keeps none
\* (`continue` and `except Exception: continue` record nothing)
failure_notes == {}

---------------------------------------------------------------------------
(* The scan button handler.                                                *)

Init ==
    /\ pc = "idle"
    /\ tickers = <<>>
    /\ conv_limit \in ConvLimits
    /\ i = 0
    /\ results = <<>>
    /\ bound = {}
    /\ heap = <<>>
    /\ stock_df = 0
    /\ is_match = FALSE
    /\ gap = NumGap(0, 1)
    /\ progress_bar = NoBar
    /\ messages = <<>>
    /\ fetched = <<>>
    /\ evaluated = <<>>
    /\ matched = {}

\* st.button pressed: lines 77-85
ClickScan ==
    /\ pc = "idle"
    /\ \E outcome \in TickerOutcomes :
        LET r == get_twse_tickers(outcome)
        IN /\ tickers' = r.tickers
           /\ fetched' = [j \in 1..Len(r.tickers) |-> 0]
           /\ evaluated' = [j \in 1..Len(r.tickers) |-> 0]
           /\ IF not_tickers(r.tickers)
              THEN /\ messages' = messages \o r.shown \o <<"error: no ticker list">>
                   /\ bound' = {"tickers"}
                   /\ pc' = "done"
                   /\ UNCHANGED <<progress_bar, results>>
              ELSE /\ messages' = messages \o r.shown \o <<"info: analysing">>
                   /\ bound' = {"tickers", "progress_bar", "results"}
                   /\ progress_bar' = Bar(0, 1)
                   /\ results' = <<>>
                   /\ pc' = "loop"
    /\ i' = 0
    /\ UNCHANGED <<conv_limit, heap, stock_df, is_match, gap, matched>>

\* one pass of the loop up to the return of yf.download: lines 88-95
Fetch ==
    /\ pc = "loop"
    /\ i < Len(tickers)
    /\ progress_bar' = IF i % ProgressEvery = 0 THEN Bar(i + 1, Len(tickers))
                       ELSE progress_bar
    /\ fetched' = [fetched EXCEPT ![i + 1] = @ + 1]
    /\ \/ \* yf.download raises: except Exception: continue
          /\ i' = continue_at(i)
          /\ UNCHANGED <<pc, heap, stock_df, bound>>
       \/ \* yf.download returns a frame, bound to stock_df
          \E f \in Frames :
            /\ heap' = <<f>>
            /\ stock_df' = 1
            /\ bound' = bound \cup {"stock_df"}
            /\ pc' = "fetched"
            /\ UNCHANGED i
    /\ UNCHANGED <<tickers, conv_limit, results, is_match, gap, messages,
                   evaluated, matched>>

\* the rest of the pass: lines 96-109
Evaluate ==
    /\ pc = "fetched"
    /\ pc' = "loop"
    /\ i' = continue_at(i)
    /\ IF df_empty(heap[stock_df]) \/ df_len(heap[stock_df]) < MinRows
       THEN UNCHANGED <<heap, is_match, gap, results, bound, evaluated, matched>>
       ELSE LET r == calculate_ma_alignment(heap, stock_df, conv_limit)
                row == result_row(r.heap, stock_df, tickers[i + 1], r.gap)
            IN /\ heap' = r.heap
               /\ is_match' = r.is_match
               /\ gap' = r.gap
               /\ bound' = bound \cup {"is_match", "gap"}
               /\ evaluated' = [evaluated EXCEPT ![i + 1] = @ + 1]
               /\ matched' = IF r.is_match THEN matched \cup {i + 1} ELSE matched
               /\ results' = append_result(results, tickers[i + 1], r.is_match, row)
    /\ UNCHANGED <<tickers, conv_limit, stock_df, progress_bar, messages, fetched>>

\* after the loop: lines 111-116
Finish ==
    /\ pc = "loop"
    /\ i = Len(tickers)
    /\ progress_bar' = NoBar
    /\ messages' = IF results # <<>>
                   THEN messages \o <<"success: found", "dataframe">>
                   ELSE messages
    /\ pc' = "done"
    /\ UNCHANGED <<tickers, conv_limit, i, results, bound, heap, stock_df,
                   is_match, gap, fetched, evaluated, matched>>

Next == ClickScan \/ Fetch \/ Evaluate \/ Finish

Spec == Init /\ [][Next]_vars

---------------------------------------------------------------------------
(* calculate_ma_alignment called on its own, on any frame.                 *)

InitCall ==
    /\ pc = "call"
    /\ tickers = <<>>
    /\ conv_limit \in ConvLimits
    /\ i = 0
    /\ results = <<>>
    /\ bound = {"stock_df"}
    /\ \E f \in Frames : heap = <<f>>
    /\ stock_df = 1
    /\ is_match = FALSE
    /\ gap = NumGap(0, 1)
    /\ progress_bar = NoBar
    /\ messages = <<>>
    /\ fetched = <<>>
    /\ evaluated = <<>>
    /\ matched = {}

Call ==
    /\ pc = "call"
    /\ LET r == calculate_ma_alignment(heap, stock_df, conv_limit)
       IN /\ heap' = r.heap
          /\ is_match' = r.is_match
          /\ gap' = r.gap
    /\ bound' = bound \cup {"is_match", "gap"}
    /\ pc' = "returned"
    /\ UNCHANGED <<tickers, conv_limit, i, results, stock_df, progress_bar,
                   messages, fetched, evaluated, matched>>

NextCall == Call

CallSpec == InitCall /\ [][NextCall]_vars

---------------------------------------------------------------------------
(* Reference values, computed from the rows of the frame passed to         *)
(* calculate_ma_alignment, for the statements below.  A mean is kept as    *)
(* the sum of its window, and two means are compared by cross              *)
(* multiplication.                                                         *)

Arg == heap[stock_df]
ArgLen == Len(Arg["Close"])

RECURSIVE RefSum(_, _, _)
RefSum(col, hi, cnt) ==
    IF cnt = 0 THEN 0 ELSE col[hi][1] + RefSum(col, hi - 1, cnt - 1)

\* the sum of the w cells of column c ending `back` rows before the last
WinSum(c, w, back) == RefSum(Arg[c], ArgLen - back, w)

\* that window exists and holds no missing cell
WinDefined(c, w, back) ==
    /\ ArgLen - back - w + 1 >= 1
    /\ \A j \in (ArgLen - back - w + 1)..(ArgLen - back) : Arg[c][j] # <<>>

\* the moving averages of the last two rows are all defined
LastTwoDefined ==
    /\ WinDefined("Close", W60, 0) /\ WinDefined("Close", W60, 1)
    /\ WinDefined("Volume", W5, 0) /\ WinDefined("Volume", W5, 1)

\* the previous row's ma5, ma10, ma20 are defined
PrevDefined == WinDefined("Close", W20, 1)

RefVolOK == WinSum("Volume", W5, 0) >= VolFloor * W5

RefBullish ==
    /\ WinSum("Close", W5, 0) * 2 > WinSum("Close", W10, 0)
    /\ WinSum("Close", W10, 0) * 2 > WinSum("Close", W20, 0)
    /\ WinSum("Close", W20, 0) * 3 > WinSum("Close", W60, 0)

\* 20 times the previous row's ma5, ma10, ma20
PrevMAs == {WinSum("Close", W5, 1) * 4, WinSum("Close", W10, 1) * 2,
            WinSum("Close", W20, 1)}
PrevMax == CHOOSE x \in PrevMAs : \A y \in PrevMAs : x >= y
PrevMin == CHOOSE x \in PrevMAs : \A y \in PrevMAs : x <= y

\* (max - min) / min <= thr / 100 as real numbers; undefined for min = 0
RefConverged ==
    \/ PrevMin > 0 /\ (PrevMax - PrevMin) * 100 <= conv_limit * PrevMin
    \/ PrevMin < 0

\* the returned gap is the number (PrevMax - PrevMin) / PrevMin
GapIsPrevQuotient ==
    /\ gap.kind = "num"
    /\ gap.n * PrevMin = gap.d * (PrevMax - PrevMin)

Returned == pc = "returned" /\ ArgLen >= MinRows

C4_NoMatchOnNonPositiveMin ==
    (Returned /\ PrevDefined /\ PrevMin <= 0) => ~is_match

\* C10: the call leaves the caller's frame as it was: same columns, same
\* rows, on the short-series return and on the full evaluation.
C10_CallerFrameUnchanged ==
    [][pc = "call" => heap'[stock_df] = heap[stock_df]]_vars

C10_Witness ==
    /\ Returned /\ "gap" \in bound
    /\ DOMAIN heap[stock_df] = Columns
    /\ gap.kind = "num" /\ gap.n > 0

---------------------------------------------------------------------------
(* Statements about the scan.                                              *)

Positions == 1..Len(tickers)

\* the number of result rows that carry ticker t
RowsOf(t) == Cardinality({k \in 1..Len(results) : results[k].code = t})

\* rows of a frame in which no open, high, low, close or volume is missing
CleanLen(f) ==
    Cardinality({j \in 1..df_len(f) : \A c \in Columns : f[c][j] # <<>>})

\* the position of ticker t in the ticker list
PosOf(t) == CHOOSE p \in Positions : tickers[p] = t

\* positions the loop has visited
Visited == 1..(IF pc = "fetched" THEN i + 1 ELSE i)

\* C1: after a run over a non-empty universe, every ticker for which
\* calculate_ma_alignment returned match = true has exactly one row in results.
C1_MatchNeverLost ==
    (pc = "done" /\ tickers # <<>>) =>
        \A p \in matched : RowsOf(tickers[p]) = 1

\* C5: a run over an empty universe ends in a failure state (the error is
\* shown, no ticker is fetched, no result list exists), and a run over a
\* non-empty universe ends without any error shown and with a result list,
\* also when it found no match.
C5_EmptyUniverseIsFailure ==
    pc = "done" =>
        /\ tickers = <<>> =>
            /\ messages # <<>>
            /\ messages[Len(messages)] = "error: no ticker list"
            /\ "results" \notin bound /\ "stock_df" \notin bound
            /\ heap = <<>> /\ fetched = <<>>
        /\ tickers # <<>> =>
            /\ \A k \in 1..Len(messages) :
                  messages[k] \notin {"error: no ticker list", "error: list fetch failed"}
            /\ "results" \in bound

C5_Witness ==
    /\ pc = "done" /\ tickers = <<>>
    /\ messages = <<"error: list fetch failed", "error: no ticker list">>

\* what is left of the run: two steps per ticker not yet visited, one for
\* the end of the loop
Remaining ==
    IF pc = "loop" THEN 2 * (Len(tickers) - i) + 1
    ELSE IF pc = "fetched" THEN 2 * (Len(tickers) - i)
    ELSE 0

\* C6: a failure on one ticker never ends the run: no ticker is fetched or
\* evaluated twice, a frame of at least 60 rows is evaluated, at the end
\* every ticker has been fetched exactly once, and the loop reaches its end
\* (at the head of the loop a step is always possible, the rest of a pass
\* has no guard but the frame it reads, and every step brings the end
\* nearer).
C6_FailureNeverEndsRun ==
    /\ [](\A p \in Positions : fetched[p] <= 1 /\ evaluated[p] <= 1)
    /\ [](pc = "done" => \A p \in Positions : fetched[p] = 1)
    /\ [](pc = "fetched" => fetched[i + 1] = 1 /\ evaluated[i + 1] = 0)
    /\ [][(pc = "fetched" /\ df_len(heap[stock_df]) >= MinRows)
            => evaluated'[i + 1] = 1]_vars
    /\ [](pc = "loop" => ENABLED (Fetch \/ Finish))
    /\ [](pc = "fetched" => stock_df \in DOMAIN heap)
    /\ [][(pc = "loop" \/ pc = "fetched") => Remaining' < Remaining]_vars

\* the first ticker failed (download raised, or too little data) and a later
\* ticker was still evaluated
C6_Witness ==
    /\ pc = "done"
    /\ \E p, q \in Positions : p < q /\ evaluated[p] = 0 /\ evaluated[q] = 1

C8_ShortCleanSeriesNeverMatches ==
    (pc = "loop" /\ i >= 1 /\ i <= Len(tickers) /\ fetched[i] = 1 /\ evaluated[i] = 1
        /\ CleanLen(heap[stock_df]) < MinRows)
      => i \notin matched

====
